---------------------------- MODULE Spec2Model ----------------------------
(***************************************************************************)
(* Model of the peep system monitor: the App component's sampling loop     *)
(* (fetchData driven by setInterval), its network rate derivation and      *)
(* rolling history, the ProcessList component (filter, sort, process tree, *)
(* kill dialog) and the IPC handlers of the main process.                  *)
(*                                                                         *)
(* Spec        the App component: mount, timer ticks, fetch resolution,    *)
(*             showThreads toggles, unmount.                               *)
(* SpecClock   the sampling loop under a system clock that is set back.    *)
(* SpecSample  the first sampling cycle over snapshots with zero totals    *)
(*             and missing members.                                        *)
(* SpecTree    ProcessList in tree view over bounded process lists.        *)
(* SpecTable   the flat table: filter text and column sorts.               *)
(* SpecSort    the flat table sorted by numeric and string keys.           *)
(* SpecKill    selecting and killing processes while sampling goes on.     *)
(* SpecMain    the IPC handlers over every behaviour of the native module. *)
(***************************************************************************)
EXTENDS Integers, Sequences, FiniteSets, TLC

(***************************************************************************)
(* Bounds of the model.                                                    *)
(***************************************************************************)
\* The history capacity: the code keeps 900 points (slice(-900)); the model
\* keeps the same pre-seeded rolling window scaled down so that real points
\* are evicted within the explored runs.
HistoryCapacity == 3
\* Number of fetchData calls explored.
MaxFetches == 4
\* Number of clock steps explored after the first render.
MaxClockSteps == 2
\* Longest process list given to ProcessList, and the largest pid in it.
MaxProcs == 3
MaxPid == 2
\* Number of kill requests explored.
MaxKills == 2

(***************************************************************************)
(* Program constants.                                                      *)
(***************************************************************************)
\* setInterval(fetchData, 2000), and the spacing of the placeholders.
IntervalMs == 2000
\* timeDelta = (currentTimestamp - prevTimestamp) / 1000
MsPerSecond == 1000
\* Date.now() is observed at half-interval steps.
ClockStepMs == IntervalMs \div 2

\* Date.now() at the first render.
StartTime == HistoryCapacity * IntervalMs
MaxTime == StartTime + MaxClockSteps * ClockStepMs
\* The furthest the system clock is set back.
MinSkew == -ClockStepMs

Null == "null"
FetchErrorMessage == "Failed to fetch system information"

(***************************************************************************)
(* Rational numbers: JavaScript numbers that result from a division are    *)
(* kept as reduced fractions [num, den] with den > 0.  A division by zero  *)
(* or with an undefined operand gives one of the three values with den = 0:*)
(* NaN, Infinity and -Infinity.  An undefined (missing) value is <<>>, a    *)
(* present value v is <<v>>.                                               *)
(***************************************************************************)
Abs(x) == IF x < 0 THEN -x ELSE x

RECURSIVE GCD(_, _)
GCD(a, b) == IF b = 0 THEN a ELSE GCD(b, a % b)

Frac(n, d) ==
    LET g == GCD(Abs(n), d)
    IN  [num |-> n \div g, den |-> d \div g]

Zero == [num |-> 0, den |-> 1]

NaN == [num |-> 0, den |-> 0]
Infinity == [num |-> 1, den |-> 0]
NegInfinity == [num |-> -1, den |-> 0]

isFinite(r) == r.den > 0

\* Mutant: the clamp is forgotten.
MathMax0Identity(r) == r

\* Math.max(0, r)
MathMax0(r) ==
    IF r = NaN THEN NaN
    ELSE IF r.num < 0 THEN Zero ELSE r

\* opt?.name
chain(opt, name) == IF opt = <<>> THEN <<>> ELSE opt[1][name]

\* opt ?? 0
orZero(opt) == IF opt = <<>> THEN 0 ELSE opt[1]

\* a / b for two possibly undefined integers.
divide(a, b) ==
    IF a = <<>> \/ b = <<>> THEN NaN
    ELSE IF b[1] = 0
         THEN IF a[1] = 0 THEN NaN
              ELSE IF a[1] > 0 THEN Infinity ELSE NegInfinity
         ELSE IF b[1] > 0 THEN Frac(a[1], b[1]) ELSE Frac(-a[1], -b[1])

\* r * 100
times100(r) == IF r.den = 0 THEN r ELSE Frac(r.num * 100, r.den)

\* opt > 0 (undefined > 0 is false)
greaterThanZero(opt) == opt # <<>> /\ opt[1] > 0

\* Mutant: the division is made whatever timeDelta is.
networkRateUnguarded(current, previous, currentTimestamp, previousTimestamp) ==
    divide(<<(current - previous) * MsPerSecond>>,
           <<currentTimestamp - previousTimestamp>>)

\* timeDelta > 0 ? (current - previous) / timeDelta : 0, with
\* timeDelta = (currentTimestamp - previousTimestamp) / 1000
networkRate(current, previous, currentTimestamp, previousTimestamp) ==
    LET deltaMs == currentTimestamp - previousTimestamp
    IN  IF deltaMs > 0
        THEN Frac((current - previous) * MsPerSecond, deltaMs)
        ELSE Zero

(***************************************************************************)
(* Processes and the snapshots the provider (window.electronAPI) returns.  *)
(***************************************************************************)
\* A process name: a string is the sequence of its characters.
DefaultName == <<"s", "h">>

Proc(pid, ppid, cpu) ==
    [pid |-> pid, ppid |-> ppid, cpu |-> cpu, name |-> DefaultName]

\* A SystemInfo object: every member, and every number in it, may be missing.
Cpu(usage) == <<[usage |-> usage]>>
Memory(used, total, usedSwap, totalSwap) ==
    <<[used |-> used, total |-> total, usedSwap |-> usedSwap,
       totalSwap |-> totalSwap]>>
Disk(read, write) == <<[read |-> read, write |-> write]>>
Network(rx, tx) == <<[rx |-> rx, tx |-> tx]>>
Info(cpu, memory, disk, network) ==
    <<[cpu |-> cpu, memory |-> memory, disk |-> disk, network |-> network]>>

\* What get-system-info returns when the native module is not loaded.
NativeMissingInfo ==
    Info(Cpu(<<0>>),
         <<[used |-> <<0>>, total |-> <<0>>, usedSwap |-> <<>>,
            totalSwap |-> <<>>]>>,
         Disk(<<0>>, <<0>>), Network(<<0>>, <<0>>))

\* An info with every member present.
FullInfo ==
    Info(Cpu(<<10>>), Memory(<<50>>, <<100>>, <<10>>, <<40>>),
         Disk(<<3>>, <<7>>), Network(<<1000>>, <<9000>>))

\* Results of Promise.all([getSystemInfo(), getProcesses(), ...]): info
\* (with its cumulative network counters) and the process list.
Snapshots ==
    { [info  |-> Info(Cpu(<<10>>), Memory(<<50>>, <<100>>, <<10>>, <<40>>),
                      Disk(<<0>>, <<7>>), Network(<<1000>>, <<9000>>)),
       procs |-> <<Proc(1, 0, 10), Proc(2, 1, 20)>>],
      [info  |-> Info(Cpu(<<30>>), Memory(<<75>>, <<100>>, <<0>>, <<40>>),
                      Disk(<<3>>, <<0>>), Network(<<5000>>, <<100>>)),
       procs |-> <<Proc(1, 0, 20), Proc(3, 1, 10)>>] }

(***************************************************************************)
(* State.                                                                  *)
(***************************************************************************)
VARIABLES
    \* App component
    phase,            \* "rendered" (before the effect ran), "mounted", "unmounted"
    now,              \* the time that has passed (what timers run on)
    clockSkew,        \* Date.now() - now: 0 until the system clock is set back
    systemInfo,       \* <<>> (null) or <<[rx, tx]>>: the published network rates
    processes,        \* the process list (App state, ProcessList prop)
    loading,
    error,
    showThreads,
    prevNetworkRx,
    prevNetworkTx,
    prevTimestamp,
    history,
    interval,         \* <<>> or <<[env, gen]>>: the armed setInterval timer
    nextDue,          \* the time at which the armed timer fires next
    inflight,         \* the fetchData calls awaiting Promise.all
    effectGen,        \* number of times the sampling effect has run
    \* history variables of the model (not program state)
    issued,           \* fetchData calls made so far
    cycles,           \* fetchData calls that completed the try block
    failed,           \* fetchData calls that ended in the catch block
    lastAppended,     \* <<>> or <<the point the last completed cycle appended>>
    lastDone,         \* id of the fetch that completed last, 0 if none
    issuedAtFail,     \* value of issued when a fetch last failed
    lastLocals,       \* <<>> or <<the locals of the cycle that completed last>>
    \* ProcessList component
    sortBy,
    sortDesc,
    showTreeView,
    expandedPids,
    forest,           \* <<>> (list view) or <<the result of buildProcessTree>>
    tbody,            \* the rendered table body [overflow, rows]: rows is
                      \* <<[index, level]>>, index into sortedProcesses;
                      \* overflow when the recursion of the render never ends
    searchQuery,      \* the text of the Filter box, a sequence of characters
    sortedBefore,     \* history variable: <<>> or <<[key, desc]>>, the sort
                      \* that was active before the last click on a column
                      \* header
    selectedPid,      \* <<>> (null) or <<pid>>
    showConfirmDialog,
    processToKill,    \* <<>> (null) or <<[pid, name]>>
    \* the kill requests
    killCalls,        \* the onKillProcess calls awaiting electronAPI.killProcess
    killLog,          \* history variable: the pids electronAPI.killProcess
                      \* was invoked with, in order
    lastKill,         \* history variable: <<>> or <<the last kill request
                      \* that returned>>
    openedAt,         \* history variable: the length of killLog when the
                      \* confirmation dialog was last opened
    \* main process
    native,           \* "loaded", or "missing" when require() threw
    reply             \* <<>> or <<the value the last invoked IPC handler returned>>

appVars  == <<phase, now, systemInfo, loading, error, showThreads,
              prevNetworkRx, prevNetworkTx, prevTimestamp, history, interval,
              nextDue, inflight, effectGen, issued, cycles, failed,
              lastAppended, lastDone, issuedAtFail, lastLocals,
              clockSkew>>
listVars == <<sortBy, sortDesc, showTreeView, expandedPids, forest, tbody>>
killVars == <<selectedPid, showConfirmDialog, processToKill, killCalls,
              killLog, lastKill, openedAt>>
mainVars == <<native, reply>>
tableVars == <<searchQuery, sortedBefore>>
vars     == <<appVars, processes, listVars, tableVars, killVars, mainVars>>

(***************************************************************************)
(* ProcessList: sorting.                                                   *)
(***************************************************************************)
SortKeys == {"cpu", "pid"}

\* The keys the comparator of sortedProcesses handles as strings.
StringKeys == {"name"}

\* String.prototype.toLowerCase, character by character.
toLowerCaseChar(c) ==
    CASE c = "S" -> "s"
      [] c = "H" -> "h"
      [] OTHER -> c

toLowerCase(str) == [i \in 1..Len(str) |-> toLowerCaseChar(str[i])]

\* The alphabetical rank of a letter, and whether it is a capital.
primary(c) == IF toLowerCaseChar(c) = "h" THEN 1 ELSE 2
isUpper(c) == c \in {"S", "H"}

Min(a, b) == IF a < b THEN a ELSE b

sign(n) == IF n < 0 THEN -1 ELSE IF n > 0 THEN 1 ELSE 0

\* The least member of a set of numbers, 0 for the empty set.
firstOf(at) == IF at = {} THEN 0 ELSE CHOOSE k \in at : \A h \in at : k <= h

\* The first position at which two strings have different letters, and the
\* first at which they differ in case; 0 if there is none.
firstLetterDiff(a, b) ==
    firstOf({k \in 1..Min(Len(a), Len(b)) : primary(a[k]) # primary(b[k])})
firstCaseDiff(a, b) ==
    firstOf({k \in 1..Min(Len(a), Len(b)) : isUpper(a[k]) # isUpper(b[k])})

\* String.prototype.localeCompare: the letters decide in alphabetical
\* order, then the length, and between strings that differ in case only
\* the small letter comes first.
localeCompare(a, b) ==
    LET k == firstLetterDiff(a, b)
        u == firstCaseDiff(a, b)
    IN  IF k > 0 THEN sign(primary(a[k]) - primary(b[k]))
        ELSE IF Len(a) # Len(b) THEN sign(Len(a) - Len(b))
        ELSE IF u > 0 THEN (IF isUpper(a[u]) THEN 1 ELSE -1)
        ELSE 0

\* The comparator without its branch for the string keys: the difference
\* of two strings is NaN, which sort takes for a tie.
compareNumbersOnly(a, b, key, desc) ==
    IF key \in StringKeys THEN 0
    ELSE IF desc THEN b[key] - a[key] ELSE a[key] - b[key]

\* The comparator of sortedProcesses: for the string keys
\* sortDesc ? bStr.localeCompare(aStr) : aStr.localeCompare(bStr) with
\* aStr = String(aVal).toLowerCase() (String() of a string is the string),
\* for the numeric keys sortDesc ? bVal - aVal : aVal - bVal
compare(a, b, key, desc) ==
    IF key \in StringKeys
    THEN LET aStr == toLowerCase(a[key])
             bStr == toLowerCase(b[key])
         IN  IF desc THEN localeCompare(bStr, aStr) ELSE localeCompare(aStr, bStr)
    ELSE IF desc THEN b[key] - a[key] ELSE a[key] - b[key]

\* Array.prototype.sort is stable: an element is placed before the first
\* element the comparator puts strictly after it.
RECURSIVE insertSorted(_, _, _, _)
insertSorted(sorted, x, key, desc) ==
    IF sorted = <<>> THEN <<x>>
    ELSE IF compare(Head(sorted), x, key, desc) > 0
         THEN <<x>> \o sorted
         ELSE <<Head(sorted)>> \o insertSorted(Tail(sorted), x, key, desc)

RECURSIVE arraySort(_, _, _)
arraySort(procs, key, desc) ==
    IF procs = <<>> THEN <<>>
    ELSE insertSorted(arraySort(SubSeq(procs, 1, Len(procs) - 1), key, desc),
                      procs[Len(procs)], key, desc)

\* String.prototype.includes
includes(str, sub) ==
    \E i \in 0..(Len(str) - Len(sub)) : SubSeq(str, i + 1, i + Len(sub)) = sub

\* process.name.toLowerCase().includes(searchQuery.toLowerCase()), after
\* if (!searchQuery) return true
matches(process, query) ==
    IF query = <<>> THEN TRUE
    ELSE includes(toLowerCase(process.name), toLowerCase(query))

\* Mutant: the filter compares the characters as they are.
filterProcessesCaseSensitive(procs, query) ==
    SelectSeq(procs, LAMBDA process :
                  IF query = <<>> THEN TRUE ELSE includes(process.name, query))

\* [...processes].filter((process) => { if (!searchQuery) return true; ... })
filterProcesses(procs, query) ==
    SelectSeq(procs, LAMBDA process : matches(process, query))

\* Mutant: the sort starts from the reversed list.
sortedProcessesReversed(procs, query, key, desc) ==
    LET kept == filterProcesses(procs, query)
    IN  arraySort([i \in 1..Len(kept) |-> kept[Len(kept) + 1 - i]], key, desc)

\* const sortedProcesses = [...processes].filter(...).sort(...)
sortedProcesses(procs, query, key, desc) ==
    arraySort(filterProcesses(procs, query), key, desc)

(***************************************************************************)
(* ProcessList: the process tree.  Processes are referred to by their      *)
(* index in the list given to buildProcessTree (object identity).          *)
(***************************************************************************)
\* Map.prototype.set
mapSet(m, k, v) == [x \in (DOMAIN m) \cup {k} |-> IF x = k THEN v ELSE m[x]]

\* childrenMap.get(pid) || []
childrenOf(childrenMap, pid) ==
    IF pid \in DOMAIN childrenMap THEN childrenMap[pid] ELSE <<>>

emptyMap == [x \in {} |-> <<>>]

\* First pass: create maps.
RECURSIVE firstPass(_, _, _)
firstPass(procs, i, maps) ==
    IF i > Len(procs) THEN maps
    ELSE firstPass(procs, i + 1,
            [processMap  |-> mapSet(maps.processMap, procs[i].pid, i),
             childrenMap |-> IF procs[i].ppid \in DOMAIN maps.childrenMap
                             THEN maps.childrenMap
                             ELSE mapSet(maps.childrenMap, procs[i].ppid, <<>>)])

\* The test of the second pass: proc.ppid !== 0 && processMap.has(proc.ppid)
hasParent(proc, processMap) ==
    proc.ppid # 0 /\ proc.ppid \in DOMAIN processMap

\* Second pass: build parent-child relationships.
RECURSIVE secondPass(_, _, _, _)
secondPass(procs, i, processMap, childrenMap) ==
    IF i > Len(procs) THEN childrenMap
    ELSE secondPass(procs, i + 1, processMap,
            IF hasParent(procs[i], processMap)
            THEN mapSet(childrenMap, procs[i].ppid,
                        Append(childrenOf(childrenMap, procs[i].ppid), i))
            ELSE childrenMap)

\* Mutant: only ppid 0 makes a root.
isRootPpidZero(proc, processMap) == proc.ppid = 0

\* The test of the roots filter: proc.ppid === 0 || !processMap.has(proc.ppid)
isRoot(proc, processMap) ==
    proc.ppid = 0 \/ proc.ppid \notin DOMAIN processMap

\* processes.filter(proc => ...)
RECURSIVE filterRoots(_, _, _)
filterRoots(procs, i, processMap) ==
    IF i > Len(procs) THEN <<>>
    ELSE (IF isRoot(procs[i], processMap) THEN <<i>> ELSE <<>>)
         \o filterRoots(procs, i + 1, processMap)

buildProcessTree(procs) ==
    LET maps == firstPass(procs, 1, [processMap |-> emptyMap, childrenMap |-> emptyMap])
        childrenMap == secondPass(procs, 1, maps.processMap, maps.childrenMap)
    IN  [processMap  |-> maps.processMap,
         childrenMap |-> childrenMap,
         roots       |-> filterRoots(procs, 1, maps.processMap)]

\* A call chain of renderProcessTree longer than the list visits some
\* process twice and so never ends (RangeError: the render throws).
Overflow == [overflow |-> TRUE, rows |-> <<>>]

joinRows(a, b) ==
    IF a.overflow \/ b.overflow THEN Overflow
    ELSE [overflow |-> FALSE, rows |-> a.rows \o b.rows]

RECURSIVE renderProcessTree(_, _, _, _, _)
RECURSIVE renderEach(_, _, _, _, _, _)
\* renderProcessTree with the rows of the children pushed before the row of
\* the process itself.
renderProcessTreeChildrenFirst(procs, i, level, childrenMap, expanded) ==
    IF level >= Len(procs) THEN Overflow
    ELSE LET children == childrenOf(childrenMap, procs[i].pid)
             row == [overflow |-> FALSE,
                     rows |-> <<[index |-> i, level |-> level]>>]
         IN  IF procs[i].pid \in expanded /\ Len(children) > 0
             THEN joinRows(renderEach(procs, children, 1, level + 1,
                                      childrenMap, expanded), row)
             ELSE row

\* renderProcessTree(process, level, childrenMap), process = procs[i]
renderProcessTree(procs, i, level, childrenMap, expanded) ==
    IF level >= Len(procs) THEN Overflow
    ELSE LET children == childrenOf(childrenMap, procs[i].pid)
             hasChildren == Len(children) > 0
             isExpanded == procs[i].pid \in expanded
             row == [overflow |-> FALSE,
                     rows |-> <<[index |-> i, level |-> level]>>]
         IN  IF isExpanded /\ hasChildren
             THEN joinRows(row, renderEach(procs, children, 1, level + 1,
                                           childrenMap, expanded))
             ELSE row

\* children.forEach(child => rows.push(...renderProcessTree(child, level + 1, childrenMap)))
\* and roots.flatMap(root => renderProcessTree(root, 0, childrenMap))
renderEach(procs, nodes, k, level, childrenMap, expanded) ==
    IF k > Len(nodes) THEN [overflow |-> FALSE, rows |-> <<>>]
    ELSE joinRows(renderProcessTree(procs, nodes[k], level, childrenMap, expanded),
                  renderEach(procs, nodes, k + 1, level, childrenMap, expanded))

\* The forest the tree view builds on a render, none in the list view.
renderForest(procs, query, key, desc, treeView) ==
    IF treeView THEN <<buildProcessTree(sortedProcesses(procs, query, key, desc))>>
    ELSE <<>>

\* The <tbody> of the table.
renderBody(procs, query, key, desc, treeView, expanded) ==
    LET sorted == sortedProcesses(procs, query, key, desc)
    IN  IF treeView
        THEN LET tree == buildProcessTree(sorted)
             IN  renderEach(sorted, tree.roots, 1, 0, tree.childrenMap, expanded)
        ELSE [overflow |-> FALSE,
              rows |-> [i \in 1..Len(sorted) |-> [index |-> i, level |-> 0]]]

\* The render that follows a state change of App or ProcessList.
Rendered(procs, query, key, desc, treeView, expanded) ==
    /\ forest' = renderForest(procs, query, key, desc, treeView)
    /\ tbody' = renderBody(procs, query, key, desc, treeView, expanded)

ListUnchanged == UNCHANGED listVars

\* App renders ProcessList only past its loading and error returns.
ProcessListShown == phase = "mounted" /\ ~loading /\ error = Null

\* handleSort with a new column keeping the direction it finds.
handleSortKeepsDirection(column) ==
    /\ ProcessListShown
    /\ ~tbody.overflow
    /\ IF sortBy = column
       THEN /\ sortDesc' = ~sortDesc
            /\ UNCHANGED sortBy
       ELSE /\ sortBy' = column
            /\ UNCHANGED sortDesc
    /\ Rendered(processes, searchQuery, sortBy', sortDesc', showTreeView, expandedPids)
    /\ UNCHANGED <<appVars, processes, showTreeView, expandedPids>>
    /\ UNCHANGED <<searchQuery, killVars, mainVars>>

\* handleSort(column): a click on a column header.  (The history variable
\* sortedBefore is set by the specification that uses the action.)
handleSort(column) ==
    /\ ProcessListShown
    /\ ~tbody.overflow
    /\ IF sortBy = column
       THEN /\ sortDesc' = ~sortDesc
            /\ UNCHANGED sortBy
       ELSE /\ sortBy' = column
            /\ sortDesc' = TRUE
    /\ Rendered(processes, searchQuery, sortBy', sortDesc', showTreeView, expandedPids)
    /\ UNCHANGED <<appVars, processes, showTreeView, expandedPids>>
    /\ UNCHANGED <<searchQuery, killVars, mainVars>>

\* setShowTreeView(v): the List and Tree buttons.
setShowTreeView(v) ==
    /\ ProcessListShown
    /\ ~tbody.overflow
    /\ showTreeView' = v
    /\ Rendered(processes, searchQuery, sortBy, sortDesc, v, expandedPids)
    /\ UNCHANGED <<appVars, processes, sortBy, sortDesc, expandedPids>>
    /\ UNCHANGED <<tableVars, killVars, mainVars>>

\* setSearchQuery(e.target.value): the Filter box is edited (or cleared by
\* its button).
setSearchQuery(value) ==
    /\ ProcessListShown
    /\ ~tbody.overflow
    /\ searchQuery' = value
    /\ Rendered(processes, value, sortBy, sortDesc, showTreeView, expandedPids)
    /\ UNCHANGED <<appVars, processes, sortBy, sortDesc, showTreeView,
                   expandedPids, sortedBefore, killVars, mainVars>>

\* toggleExpanded(pid): a click on the arrow of a displayed row that has
\* children.
toggleExpanded(pid) ==
    /\ ProcessListShown
    /\ showTreeView
    /\ ~tbody.overflow
    /\ \E r \in 1..Len(tbody.rows) :
          LET sorted == sortedProcesses(processes, searchQuery, sortBy, sortDesc)
          IN  /\ sorted[tbody.rows[r].index].pid = pid
              /\ Len(childrenOf(forest[1].childrenMap, pid)) > 0
    /\ expandedPids' = IF pid \in expandedPids
                       THEN expandedPids \ {pid}
                       ELSE expandedPids \cup {pid}
    /\ Rendered(processes, searchQuery, sortBy, sortDesc, showTreeView, expandedPids')
    /\ UNCHANGED <<appVars, processes, sortBy, sortDesc, showTreeView>>
    /\ UNCHANGED <<tableVars, killVars, mainVars>>

ListInit ==
    /\ sortBy = "cpu"
    /\ sortDesc = TRUE
    /\ showTreeView = FALSE
    /\ expandedPids = {}
    /\ searchQuery = <<>>
    /\ sortedBefore = <<>>
    /\ forest = renderForest(processes, <<>>, "cpu", TRUE, FALSE)
    /\ tbody = renderBody(processes, <<>>, "cpu", TRUE, FALSE, {})

\* Date.now()
DateNow == now + clockSkew

(***************************************************************************)
(* App: history.                                                           *)
(***************************************************************************)
\* The initializer counting i from 1: the last placeholder is stamped with
\* the time of the start itself.
initialHistoryFromOne ==
    [i \in 1..HistoryCapacity |->
        [timestamp |-> StartTime - (HistoryCapacity - i) * IntervalMs,
         cpu |-> Zero, memory |-> Zero, swap |-> Zero,
         diskRead |-> Zero, diskWrite |-> Zero,
         networkRx |-> Zero,
         networkTx |-> Zero]]

\* Array.from({ length: 900 }, (_, i) => ({ timestamp: Date.now() - (900 - i) * 2000, ... 0 }))
initialHistory ==
    [i \in 1..HistoryCapacity |->
        [timestamp |-> StartTime - (HistoryCapacity - (i - 1)) * IntervalMs,
         cpu |-> Zero, memory |-> Zero, swap |-> Zero,
         diskRead |-> Zero, diskWrite |-> Zero,
         networkRx |-> Zero,
         networkTx |-> Zero]]

\* Mutant: slice(0, 900) keeps the oldest points.
sliceFirst(s, n) ==
    IF Len(s) <= n THEN s ELSE SubSeq(s, 1, n)

\* updated.slice(-900)
sliceLast(s, n) ==
    IF Len(s) <= n THEN s ELSE SubSeq(s, Len(s) - n + 1, Len(s))

\* Mutant: the slice is forgotten.
setHistoryUnbounded(prev, newDataPoint) == Append(prev, newDataPoint)

\* setHistory((prev) => [...prev, newDataPoint].slice(-900))
setHistory(prev, newDataPoint) ==
    sliceLast(Append(prev, newDataPoint), HistoryCapacity)

(***************************************************************************)
(* App: the sampling effect.                                               *)
(***************************************************************************)
\* The values fetchData closes over: those of the render in which the
\* effect ran (the effect's dependencies are [showThreads] only).
closure ==
    [prevNetworkRx |-> prevNetworkRx,
     prevNetworkTx |-> prevNetworkTx,
     prevTimestamp |-> prevTimestamp,
     showThreads   |-> showThreads]

\* fetchData() up to its await: one more outstanding Promise.all.
fetchData(env, gen) ==
    [id |-> issued + 1, gen |-> gen, env |-> env]


\* useEffect(() => { ...; fetchData(); const interval = setInterval(fetchData, 2000); ... }, [showThreads])
\* on the first render.
Mount ==
    /\ phase = "rendered"
    /\ phase' = "mounted"
    /\ effectGen' = effectGen + 1
    /\ inflight' = inflight \cup {fetchData(closure, effectGen + 1)}
    /\ issued' = issued + 1
    /\ interval' = <<[env |-> closure, gen |-> effectGen + 1]>>
    /\ nextDue' = now + IntervalMs
    /\ UNCHANGED <<now, systemInfo, processes, loading, error, showThreads,
                   prevNetworkRx, prevNetworkTx, prevTimestamp, history,
                   cycles, failed, lastAppended, lastDone, issuedAtFail, lastLocals,
                   clockSkew>>
    /\ ListUnchanged
    /\ UNCHANGED <<tableVars, killVars, mainVars>>

\* The timer fires: fetchData of the effect that armed it is called.
Tick ==
    /\ interval # <<>>
    /\ now >= nextDue
    /\ issued < MaxFetches
    /\ inflight' = inflight \cup {fetchData(interval[1].env, interval[1].gen)}
    /\ issued' = issued + 1
    /\ nextDue' = nextDue + IntervalMs
    /\ UNCHANGED <<phase, now, systemInfo, processes, loading, error,
                   showThreads, prevNetworkRx, prevNetworkTx, prevTimestamp,
                   history, interval, effectGen, cycles, failed, lastAppended,
                   lastDone, issuedAtFail, lastLocals,
                   clockSkew>>
    /\ ListUnchanged
    /\ UNCHANGED <<tableVars, killVars, mainVars>>

\* The try block ending with setError(null): a cycle that succeeds clears
\* the error of an earlier one.
FetchResolvedClearsError(f, snap) ==
    LET info == snap.info
        currentTimestamp == DateNow
        networkRx == orZero(chain(chain(info, "network"), "rx"))
        networkTx == orZero(chain(chain(info, "network"), "tx"))
        memory == chain(info, "memory")
        networkRxRate == networkRate(networkRx, f.env.prevNetworkRx,
                                     currentTimestamp, f.env.prevTimestamp)
        networkTxRate == networkRate(networkTx, f.env.prevNetworkTx,
                                     currentTimestamp, f.env.prevTimestamp)
        newDataPoint ==
            [timestamp |-> currentTimestamp,
             cpu       |-> Frac(orZero(chain(chain(info, "cpu"), "usage")), 1),
             memory    |-> IF memory # <<>>
                           THEN times100(divide(memory[1].used, memory[1].total))
                           ELSE Zero,
             swap      |-> IF memory # <<>> /\ greaterThanZero(memory[1].totalSwap)
                           THEN times100(divide(memory[1].usedSwap,
                                                memory[1].totalSwap))
                           ELSE Zero,
             diskRead  |-> Frac(orZero(chain(chain(info, "disk"), "read")), 1),
             diskWrite |-> Frac(orZero(chain(chain(info, "disk"), "write")), 1),
             networkRx |-> MathMax0(networkRxRate),
             networkTx |-> MathMax0(networkTxRate)]
    IN  /\ processes' = snap.procs
        /\ loading' = FALSE
        /\ prevNetworkRx' = networkRx
        /\ prevNetworkTx' = networkTx
        /\ prevTimestamp' = currentTimestamp
        /\ systemInfo' = <<[rx |-> MathMax0(networkRxRate),
                            tx |-> MathMax0(networkTxRate)]>>
        /\ history' = setHistory(history, newDataPoint)
        /\ lastAppended' = <<newDataPoint>>
        /\ lastLocals' = <<[info |-> info,
                            deltaMs |-> currentTimestamp - f.env.prevTimestamp,
                            networkRx |-> networkRx,
                            networkTx |-> networkTx,
                            prevNetworkRx |-> f.env.prevNetworkRx,
                            prevNetworkTx |-> f.env.prevNetworkTx,
                            networkRxRate |-> networkRxRate,
                            networkTxRate |-> networkTxRate]>>
        /\ error' = Null
        /\ IF error = Null
           THEN Rendered(snap.procs, searchQuery, sortBy, sortDesc, showTreeView, expandedPids)
           ELSE UNCHANGED <<forest, tbody>>
        /\ UNCHANGED <<sortBy, sortDesc, showTreeView, expandedPids>>

\* The try block of fetchData after the await, for the call f and the
\* resolved value snap.
FetchResolved(f, snap) ==
    LET info == snap.info
        currentTimestamp == DateNow
        networkRx == orZero(chain(chain(info, "network"), "rx"))
        networkTx == orZero(chain(chain(info, "network"), "tx"))
        memory == chain(info, "memory")
        networkRxRate == networkRate(networkRx, f.env.prevNetworkRx,
                                     currentTimestamp, f.env.prevTimestamp)
        networkTxRate == networkRate(networkTx, f.env.prevNetworkTx,
                                     currentTimestamp, f.env.prevTimestamp)
        newDataPoint ==
            [timestamp |-> currentTimestamp,
             cpu       |-> Frac(orZero(chain(chain(info, "cpu"), "usage")), 1),
             memory    |-> IF memory # <<>>
                           THEN times100(divide(memory[1].used, memory[1].total))
                           ELSE Zero,
             swap      |-> IF memory # <<>> /\ greaterThanZero(memory[1].totalSwap)
                           THEN times100(divide(memory[1].usedSwap,
                                                memory[1].totalSwap))
                           ELSE Zero,
             diskRead  |-> Frac(orZero(chain(chain(info, "disk"), "read")), 1),
             diskWrite |-> Frac(orZero(chain(chain(info, "disk"), "write")), 1),
             networkRx |-> MathMax0(networkRxRate),
             networkTx |-> MathMax0(networkTxRate)]
    IN  /\ processes' = snap.procs
        /\ loading' = FALSE
        /\ prevNetworkRx' = networkRx
        /\ prevNetworkTx' = networkTx
        /\ prevTimestamp' = currentTimestamp
        /\ systemInfo' = <<[rx |-> MathMax0(networkRxRate),
                            tx |-> MathMax0(networkTxRate)]>>
        /\ history' = setHistory(history, newDataPoint)
        /\ lastAppended' = <<newDataPoint>>
        /\ lastLocals' = <<[info |-> info,
                            deltaMs |-> currentTimestamp - f.env.prevTimestamp,
                            networkRx |-> networkRx,
                            networkTx |-> networkTx,
                            prevNetworkRx |-> f.env.prevNetworkRx,
                            prevNetworkTx |-> f.env.prevNetworkTx,
                            networkRxRate |-> networkRxRate,
                            networkTxRate |-> networkTxRate]>>
        /\ UNCHANGED error
        /\ IF error = Null
           THEN Rendered(snap.procs, searchQuery, sortBy, sortDesc, showTreeView, expandedPids)
           ELSE UNCHANGED <<forest, tbody>>
        /\ UNCHANGED <<sortBy, sortDesc, showTreeView, expandedPids>>

\* Mutant: the catch block appends a zeroed point and resets the rate state.
FetchRejectedAppends(f) ==
    /\ error' = FetchErrorMessage
    /\ loading' = FALSE
    /\ history' = setHistory(history,
                             [timestamp |-> DateNow, cpu |-> Zero, memory |-> Zero,
                              swap |-> Zero, diskRead |-> Zero,
                              diskWrite |-> Zero, networkRx |-> Zero,
                              networkTx |-> Zero])
    /\ prevNetworkRx' = 0
    /\ prevNetworkTx' = 0
    /\ prevTimestamp' = DateNow
    /\ UNCHANGED <<systemInfo, processes, interval, nextDue>>

\* Mutant: the catch block stops the timer.
FetchRejectedStops(f) ==
    /\ error' = FetchErrorMessage
    /\ loading' = FALSE
    /\ interval' = <<>>
    /\ UNCHANGED <<systemInfo, processes, prevNetworkRx, prevNetworkTx,
                   prevTimestamp, history, nextDue>>

\* The catch block of fetchData.
FetchRejected(f) ==
    /\ error' = FetchErrorMessage
    /\ loading' = FALSE
    /\ UNCHANGED <<systemInfo, processes, prevNetworkRx, prevNetworkTx,
                   prevTimestamp, history, interval, nextDue>>

\* Promise.all of an outstanding fetchData call resolves with a value of S.
ResolveOkWith(S) ==
    \E f \in inflight, snap \in S :
        /\ inflight' = inflight \ {f}
        /\ IF phase = "mounted"
           THEN /\ FetchResolved(f, snap)
                /\ cycles' = cycles + 1
                /\ lastDone' = f.id
           ELSE \* state updates of an unmounted component are dropped
                /\ UNCHANGED <<systemInfo, processes, loading, error,
                               prevNetworkRx, prevNetworkTx, prevTimestamp,
                               history, lastAppended, cycles, lastDone,
                               lastLocals>>
                /\ ListUnchanged
        /\ UNCHANGED <<phase, now, clockSkew, showThreads, interval, nextDue,
                       effectGen, issued, failed, issuedAtFail>>
        /\ UNCHANGED <<tableVars, killVars, mainVars>>

ResolveOk == ResolveOkWith(Snapshots)

\* Promise.all of an outstanding fetchData call rejects.
ResolveFail ==
    \E f \in inflight :
        /\ inflight' = inflight \ {f}
        /\ IF phase = "mounted"
           THEN /\ FetchRejected(f)
                /\ failed' = failed + 1
                /\ issuedAtFail' = issued
           ELSE UNCHANGED <<systemInfo, processes, loading, error,
                            prevNetworkRx, prevNetworkTx, prevTimestamp,
                            history, interval, nextDue, failed, issuedAtFail>>
        /\ UNCHANGED <<phase, now, showThreads, effectGen, issued, cycles,
                       lastAppended, lastDone, lastLocals,
                       clockSkew>>
        /\ ListUnchanged
        /\ UNCHANGED <<tableVars, killVars, mainVars>>

\* The effect re-run without its cleanup: the old timer stays armed.
ToggleThreadsNoCleanup ==
    /\ phase = "mounted"
    /\ ~loading
    /\ error = Null
    /\ issued < MaxFetches
    /\ showThreads' = ~showThreads
    /\ effectGen' = effectGen + 1
    /\ LET env == [closure EXCEPT !.showThreads = ~showThreads]
       IN  /\ inflight' = inflight \cup {fetchData(env, effectGen + 1)}
           /\ interval' = Append(interval, [env |-> env, gen |-> effectGen + 1])
    /\ issued' = issued + 1
    /\ nextDue' = now + IntervalMs
    /\ UNCHANGED <<phase, now, systemInfo, processes, loading, error,
                   prevNetworkRx, prevNetworkTx, prevTimestamp, history,
                   cycles, failed, lastAppended, lastDone, issuedAtFail, lastLocals,
                   clockSkew>>
    /\ ListUnchanged
    /\ UNCHANGED <<tableVars, killVars, mainVars>>

\* onToggleThreads: setShowThreads(!showThreads); the effect's cleanup
\* clears the timer and the effect runs again with the values of the new
\* render.  ProcessList is rendered only when neither loading nor error.
ToggleThreads ==
    /\ phase = "mounted"
    /\ ~loading
    /\ error = Null
    /\ issued < MaxFetches
    /\ showThreads' = ~showThreads
    /\ effectGen' = effectGen + 1
    /\ LET env == [closure EXCEPT !.showThreads = ~showThreads]
       IN  /\ inflight' = inflight \cup {fetchData(env, effectGen + 1)}
           /\ interval' = <<[env |-> env, gen |-> effectGen + 1]>>
    /\ issued' = issued + 1
    /\ nextDue' = now + IntervalMs
    /\ UNCHANGED <<phase, now, systemInfo, processes, loading, error,
                   prevNetworkRx, prevNetworkTx, prevTimestamp, history,
                   cycles, failed, lastAppended, lastDone, issuedAtFail, lastLocals,
                   clockSkew>>
    /\ ListUnchanged
    /\ UNCHANGED <<tableVars, killVars, mainVars>>

\* The component unmounts: the effect's cleanup runs clearInterval.
Unmount ==
    /\ phase = "mounted"
    /\ phase' = "unmounted"
    /\ interval' = <<>>
    /\ UNCHANGED <<now, systemInfo, processes, loading, error, showThreads,
                   prevNetworkRx, prevNetworkTx, prevTimestamp, history,
                   nextDue, inflight, effectGen, issued, cycles, failed,
                   lastAppended, lastDone, issuedAtFail, lastLocals,
                   clockSkew>>
    /\ ListUnchanged
    /\ UNCHANGED <<tableVars, killVars, mainVars>>

\* Time passes.
Advance ==
    /\ now < MaxTime
    /\ now' = now + ClockStepMs
    /\ UNCHANGED <<phase, systemInfo, processes, loading, error, showThreads,
                   prevNetworkRx, prevNetworkTx, prevTimestamp, history,
                   interval, nextDue, inflight, effectGen, issued, cycles,
                   failed, lastAppended, lastDone, issuedAtFail, lastLocals,
                   clockSkew>>
    /\ ListUnchanged
    /\ UNCHANGED <<tableVars, killVars, mainVars>>

\* The system clock is set back: Date.now() returns an earlier value than
\* before.  Timers are not affected.
ClockBack ==
    /\ clockSkew > MinSkew
    /\ clockSkew' = clockSkew - ClockStepMs
    /\ UNCHANGED <<phase, now, nextDue, systemInfo, processes, loading, error,
                   showThreads, prevNetworkRx, prevNetworkTx, prevTimestamp,
                   history, interval, inflight, effectGen, issued, cycles,
                   failed, lastAppended, lastDone, issuedAtFail, lastLocals>>
    /\ ListUnchanged
    /\ UNCHANGED <<tableVars, killVars, mainVars>>

(***************************************************************************)
(* Main process: the IPC handlers.  A call of the native module either     *)
(* throws or returns a value.                                              *)
(***************************************************************************)
Throws == [threw |-> TRUE, value |-> <<>>]
Returns(v) == [threw |-> FALSE, value |-> <<v>>]

NativeNotLoaded == [success |-> FALSE, message |-> "Native module not loaded"]
FailedToKill == [success |-> FALSE, message |-> "Failed to kill process"]

\* ipcMain.handle('get-system-info'): call is what native.getSystemInfo()
\* does when it is called.  null is <<>>.
getSystemInfoHandler(nat, call) ==
    IF nat = "missing" THEN Returns(NativeMissingInfo)
    ELSE IF call.threw THEN Returns(<<>>)
    ELSE call

\* systemInfo.memory.total: a TypeError when systemInfo or its memory is
\* missing.
memoryTotal(info) ==
    IF info = <<>> \/ info[1].memory = <<>>
    THEN Throws
    ELSE Returns(info[1].memory[1].total)

\* processes.map((proc) => ({ ...proc, memory: totalMemory > 0 ? (proc.memory / totalMemory) * 100 : 0 }))
mapMemory(procs, totalMemory) ==
    [i \in 1..Len(procs) |->
        [procs[i] EXCEPT !.memory =
            IF greaterThanZero(totalMemory)
            THEN times100(divide(<<procs[i].memory>>, totalMemory))
            ELSE Zero]]

\* ipcMain.handle('get-processes'): procsCall and infoCall are what
\* native.getProcesses() and native.getSystemInfo() do.
getProcessesHandler(nat, procsCall, infoCall) ==
    IF nat = "missing" THEN Returns(<<>>)
    ELSE IF procsCall.threw \/ infoCall.threw THEN Returns(<<>>)
    ELSE LET totalMemory == memoryTotal(infoCall.value[1])
         IN  IF totalMemory.threw THEN Returns(<<>>)
             ELSE Returns(mapMemory(procsCall.value[1], totalMemory.value[1]))

\* Mutant: kill-process without its try / catch.
killProcessHandlerNoCatch(nat, call) ==
    IF nat = "missing" THEN Returns(NativeNotLoaded)
    ELSE call

\* ipcMain.handle('kill-process'): call is what native.killProcess(pid) does.
killProcessHandler(nat, call) ==
    IF nat = "missing" THEN Returns(NativeNotLoaded)
    ELSE IF call.threw THEN Returns(FailedToKill)
    ELSE call

\* What native.killProcess(pid) can do.
KillOutcomes ==
    {Throws,
     Returns([success |-> TRUE, message |-> "Process killed"]),
     Returns([success |-> FALSE, message |-> "Permission denied"])}

(***************************************************************************)
(* ProcessList and App: killing a process.                                 *)
(***************************************************************************)
KillUnchanged == UNCHANGED killVars

\* onClick of a displayed row: setSelectedPid(process.pid)
selectRow(pid) ==
    /\ ProcessListShown
    /\ ~tbody.overflow
    /\ \E r \in 1..Len(tbody.rows) :
          sortedProcesses(processes, searchQuery, sortBy, sortDesc)[tbody.rows[r].index].pid = pid
    /\ selectedPid' = <<pid>>
    /\ UNCHANGED <<appVars, processes, listVars, tableVars, mainVars, showConfirmDialog,
                   processToKill, killCalls, killLog, lastKill, openedAt>>

\* processes.find((p) => p.pid === pid): <<>> or <<the first match>>
find(procs, pid) ==
    LET hits == {i \in 1..Len(procs) : procs[i].pid = pid}
    IN  IF hits = {} THEN <<>>
        ELSE <<procs[CHOOSE i \in hits : \A j \in hits : i <= j]>>

\* handleKillProcess(pid, name)
handleKillProcess(pid, name) ==
    /\ processToKill' = <<[pid |-> pid, name |-> name]>>
    /\ showConfirmDialog' = TRUE
    /\ openedAt' = Len(killLog)

\* onClick of the Kill Process button of the toolbar (disabled while nothing
\* is selected; nothing happens when the selected pid has left the list).
clickKill ==
    /\ ProcessListShown
    /\ selectedPid # <<>>
    /\ find(processes, selectedPid[1]) # <<>>
    /\ handleKillProcess(selectedPid[1], find(processes, selectedPid[1])[1].name)
    /\ UNCHANGED <<appVars, processes, listVars, tableVars, mainVars, selectedPid,
                   killCalls, killLog, lastKill>>

\* The dialog is rendered when showConfirmDialog && processToKill.
DialogShown == ProcessListShown /\ showConfirmDialog /\ processToKill # <<>>

\* Mutant: Cancel sends the kill request as well.
cancelKillInvokes ==
    /\ DialogShown
    /\ Len(killLog) < MaxKills
    /\ showConfirmDialog' = FALSE
    /\ processToKill' = <<>>
    /\ killCalls' = killCalls \cup {[id |-> Len(killLog) + 1,
                                       pid |-> processToKill[1].pid,
                                       processes |-> processes]}
    /\ killLog' = Append(killLog, processToKill[1].pid)
    /\ UNCHANGED <<appVars, processes, listVars, tableVars, mainVars, selectedPid,
                   lastKill, openedAt>>

\* cancelKill: the Cancel button of the dialog.
cancelKill ==
    /\ DialogShown
    /\ showConfirmDialog' = FALSE
    /\ processToKill' = <<>>
    /\ UNCHANGED <<appVars, processes, listVars, tableVars, mainVars, selectedPid,
                   killCalls, killLog, lastKill, openedAt>>

\* confirmKill up to its await: the Kill Process button of the dialog calls
\* onKillProcess(processToKill.pid), which invokes
\* window.electronAPI.killProcess(pid).  onKillProcess closes over the
\* processes of the render it was created in.
confirmKill ==
    /\ DialogShown
    /\ Len(killLog) < MaxKills
    /\ killCalls' = killCalls \cup {[id |-> Len(killLog) + 1,
                                       pid |-> processToKill[1].pid,
                                       processes |-> processes]}
    /\ killLog' = Append(killLog, processToKill[1].pid)
    /\ UNCHANGED <<appVars, processes, listVars, tableVars, mainVars, selectedPid,
                   showConfirmDialog, processToKill, lastKill, openedAt>>

\* processes.filter((p) => p.pid !== pid)
filterOut(procs, pid) ==
    SelectSeq(procs, LAMBDA p : p.pid # pid)

\* Mutant: the pid is removed whatever the result says.
onKillProcessAlways(call, result) ==
    /\ processes' = filterOut(call.processes, call.pid)
    /\ IF error = Null
       THEN Rendered(processes', searchQuery, sortBy, sortDesc, showTreeView, expandedPids)
       ELSE UNCHANGED <<forest, tbody>>

\* onKillProcess after its await: if (result.success) setProcesses(...);
\* return result
onKillProcess(call, result) ==
    IF result.success
    THEN /\ processes' = filterOut(call.processes, call.pid)
         /\ IF error = Null
            THEN Rendered(processes', searchQuery, sortBy, sortDesc, showTreeView,
                          expandedPids)
            ELSE UNCHANGED <<forest, tbody>>
    ELSE UNCHANGED <<processes, forest, tbody>>

\* The kill-process handler replies to an outstanding request: onKillProcess
\* and then confirmKill run to their ends.
KillReturns ==
    \E call \in killCalls, outcome \in KillOutcomes :
        LET handled == killProcessHandler(native, outcome)
            result  == handled.value[1]
        IN  /\ phase = "mounted"
            /\ ~handled.threw
            /\ killCalls' = killCalls \ {call}
            /\ reply' = <<[channel |-> "kill-process", nat |-> native,
                           calls |-> <<outcome>>, result |-> handled]>>
            /\ onKillProcess(call, result)
            /\ IF ProcessListShown
               THEN /\ selectedPid' = IF result.success THEN <<>>
                                       ELSE selectedPid
                    /\ showConfirmDialog' = FALSE
                    /\ processToKill' = <<>>
               ELSE UNCHANGED <<selectedPid, showConfirmDialog, processToKill>>
            /\ lastKill' = <<[pid |-> call.pid, replied |-> result,
                              returned |-> result, before |-> processes]>>
            /\ UNCHANGED <<appVars, sortBy, sortDesc, showTreeView,
                           expandedPids, tableVars, killLog, native,
                           openedAt>>

KillInit ==
    /\ selectedPid = <<>>
    /\ showConfirmDialog = FALSE
    /\ processToKill = <<>>
    /\ killCalls = {}
    /\ killLog = <<>>
    /\ lastKill = <<>>
    /\ openedAt = 0

\* The native module was loaded when the main process started.
MainInit ==
    /\ native = "loaded"
    /\ reply = <<>>

AppInit ==
    /\ phase = "rendered"
    /\ now = StartTime
    /\ systemInfo = <<>>
    /\ loading = TRUE
    /\ error = Null
    /\ showThreads = FALSE
    /\ prevNetworkRx = 0
    /\ prevNetworkTx = 0
    /\ prevTimestamp = StartTime
    /\ history = initialHistory
    /\ interval = <<>>
    /\ nextDue = 0
    /\ inflight = {}
    /\ effectGen = 0
    /\ issued = 0
    /\ cycles = 0
    /\ failed = 0
    /\ lastAppended = <<>>
    /\ lastDone = 0
    /\ issuedAtFail = 0
    /\ lastLocals = <<>>
    /\ clockSkew = 0

Init == AppInit /\ processes = <<>> /\ ListInit /\ KillInit /\ MainInit

Next ==
    \/ Mount
    \/ Tick
    \/ ResolveOk
    \/ ResolveFail
    \/ ToggleThreads
    \/ Unmount
    \/ Advance

Spec == Init /\ [][Next]_vars

(***************************************************************************)
(* SpecClock: the sampling loop under a system clock that can be set back. *)
(***************************************************************************)
\* Captures are those of the fetchData call each run of the effect makes.
NextClock ==
    \/ Mount
    \/ ResolveOk
    \/ ToggleThreads
    \/ Advance
    \/ ClockBack

SpecClock == Init /\ [][NextClock]_vars

(***************************************************************************)
(* SpecSample: the first sampling cycle over snapshots with zero totals    *)
(* and with missing members.                                               *)
(***************************************************************************)
\* Memory objects: each number missing, zero or positive.
Memories ==
    { Memory(used, total, usedSwap, totalSwap) :
        used \in {<<>>, <<0>>, <<50>>}, total \in {<<>>, <<0>>, <<100>>},
        usedSwap \in {<<>>, <<0>>, <<10>>}, totalSwap \in {<<>>, <<0>>, <<40>>} }

\* null, the fallback, and FullInfo with one member replaced.
Infos ==
    {<<>>, NativeMissingInfo, FullInfo}
    \cup { <<[FullInfo[1] EXCEPT !.memory = m]>> : m \in Memories \cup {<<>>} }
    \cup { <<[FullInfo[1] EXCEPT !.cpu = c]>> : c \in {<<>>, Cpu(<<>>)} }
    \cup { <<[FullInfo[1] EXCEPT !.disk = d]>> :
              d \in {<<>>, Disk(<<>>, <<7>>), Disk(<<3>>, <<>>)} }
    \cup { <<[FullInfo[1] EXCEPT !.network = n]>> :
              n \in {<<>>, Network(<<>>, <<9000>>), Network(<<1000>>, <<>>)} }

InfoSnapshots == { [info |-> i, procs |-> <<>>] : i \in Infos }

ResolveInfo == ResolveOkWith(InfoSnapshots)

NextSample ==
    \/ Mount
    \/ ResolveInfo
    \/ Advance

SpecSample == Init /\ [][NextSample]_vars

(***************************************************************************)
(* SpecTree: ProcessList over every process list of bounded length.        *)
(***************************************************************************)
\* The tree does not read cpu: one value keeps the set of lists small (the
\* pid column still gives handleSort lists to reorder).
CpuValues == {10}

\* A ppid may be 0, the pid of an entry of the list or a pid that no entry
\* of the list has.
ProcDomain ==
    { Proc(pid, ppid, cpu) : pid \in 1..MaxPid, ppid \in 0..MaxPid,
                             cpu \in CpuValues }

ProcLists == UNION { [1..n -> ProcDomain] : n \in 0..MaxProcs }

\* The App once its first fetchData call has resolved, in the millisecond
\* of the mount, with idle network counters and some process list:
\* ProcessList is shown, nothing is outstanding, the timer is armed.
AppFirstSample ==
    LET env   == [prevNetworkRx |-> 0, prevNetworkTx |-> 0,
                  prevTimestamp |-> StartTime, showThreads |-> FALSE]
        idle  == Info(Cpu(<<0>>), Memory(<<0>>, <<100>>, <<0>>, <<0>>),
                      Disk(<<0>>, <<0>>), Network(<<0>>, <<0>>))
        point == [timestamp |-> StartTime, cpu |-> Zero, memory |-> Zero,
                  swap |-> Zero, diskRead |-> Zero, diskWrite |-> Zero,
                  networkRx |-> Zero, networkTx |-> Zero]
    IN  /\ phase = "mounted"
        /\ now = StartTime
        /\ systemInfo = <<[rx |-> Zero, tx |-> Zero]>>
        /\ loading = FALSE
        /\ error = Null
        /\ showThreads = FALSE
        /\ prevNetworkRx = 0
        /\ prevNetworkTx = 0
        /\ prevTimestamp = StartTime
        /\ history = setHistory(initialHistory, point)
        /\ interval = <<[env |-> env, gen |-> 1]>>
        /\ nextDue = StartTime + IntervalMs
        /\ inflight = {}
        /\ effectGen = 1
        /\ issued = 1
        /\ cycles = 1
        /\ failed = 0
        /\ lastAppended = <<point>>
        /\ lastDone = 1
        /\ issuedAtFail = 0
        /\ lastLocals = <<[info |-> idle, deltaMs |-> 0,
                           networkRx |-> 0, networkTx |-> 0,
                           prevNetworkRx |-> 0, prevNetworkTx |-> 0,
                           networkRxRate |-> Zero, networkTxRate |-> Zero]>>
        /\ clockSkew = 0

TreeInit ==
    /\ AppFirstSample
    /\ processes \in ProcLists
    /\ ListInit
    /\ KillInit
    /\ MainInit

TreeNext ==
    \/ \E column \in SortKeys : handleSort(column) /\ UNCHANGED sortedBefore
    \/ \E v \in BOOLEAN : setShowTreeView(v)
    \/ \E pid \in 1..MaxPid : toggleExpanded(pid)

SpecTree == TreeInit /\ [][TreeNext]_vars

(***************************************************************************)
(* SpecTable: the flat table over bounded lists of named processes:        *)
(* filtering and sorting.                                                  *)
(***************************************************************************)
TableNames == {<<"s", "h">>, <<"S", "S", "H">>, <<"h">>}
Queries == {<<>>, <<"s">>, <<"S", "H">>, <<"h", "s">>}

TableProcs ==
    { [Proc(pid, 0, cpu) EXCEPT !.name = n] :
        pid \in 1..MaxPid, cpu \in CpuValues, n \in TableNames }

TableLists == UNION { [1..n -> TableProcs] : n \in 0..MaxProcs }

TableStart ==
    /\ AppFirstSample
    /\ processes \in TableLists
    /\ ListInit
    /\ KillInit
    /\ MainInit

NextTable ==
    \/ \E value \in Queries : setSearchQuery(value)
    \/ \E column \in SortKeys :
          /\ handleSort(column)
          /\ sortedBefore' = <<[key |-> sortBy, desc |-> sortDesc]>>

SpecTable == TableStart /\ [][NextTable]_vars

(***************************************************************************)
(* SpecSort: the flat table, a click on any of the column headers, numeric *)
(* or string, with and without a filter text.                              *)
(***************************************************************************)
SortQueries == {<<>>, <<"s">>}

NextSort ==
    \/ \E value \in SortQueries : setSearchQuery(value)
    \/ \E column \in SortKeys \cup StringKeys :
          /\ handleSort(column)
          /\ sortedBefore' = <<[key |-> sortBy, desc |-> sortDesc]>>

SpecSort == TableStart /\ [][NextSort]_vars

(***************************************************************************)
(* SpecMain: the IPC handlers of the main process, invoked with every      *)
(* behaviour of the native module.                                         *)
(***************************************************************************)
\* What native.getProcesses() returns: memory in bytes.
NativeProcs == {[pid |-> pid, memory |-> m] : pid \in 1..MaxPid, m \in {0, 50}}
NativeProcLists == UNION { [1..n -> NativeProcs] : n \in 0..2 }

\* What native.getSystemInfo() can do.
InfoOutcomes == {Throws} \cup {Returns(i) : i \in Infos}

Reply(channel, calls, result) ==
    <<[channel |-> channel, nat |-> native, calls |-> calls, result |-> result]>>

MainUnchanged ==
    UNCHANGED <<appVars, processes, listVars, tableVars, killVars, native>>

\* ipcRenderer.invoke('get-system-info')
InvokeGetSystemInfo ==
    \E call \in InfoOutcomes :
        /\ reply' = Reply("get-system-info", <<call>>,
                          getSystemInfoHandler(native, call))
        /\ MainUnchanged

\* ipcRenderer.invoke('get-processes')
InvokeGetProcesses ==
    \E procsCall \in {Throws} \cup {Returns(l) : l \in NativeProcLists},
       infoCall \in {Throws} \cup
                    {Returns(i) : i \in {<<>>, NativeMissingInfo, FullInfo,
                                          <<[FullInfo[1] EXCEPT !.memory = <<>>]>>}} :
        /\ reply' = Reply("get-processes", <<procsCall, infoCall>>,
                          getProcessesHandler(native, procsCall, infoCall))
        /\ MainUnchanged

\* ipcRenderer.invoke('kill-process', pid)
InvokeKillProcess ==
    \E pid \in 1..MaxPid, call \in KillOutcomes :
        /\ reply' = Reply("kill-process", <<call>>,
                          killProcessHandler(native, call))
        /\ MainUnchanged

MainStart ==
    /\ AppInit
    /\ processes = <<>>
    /\ ListInit
    /\ KillInit
    /\ native \in {"loaded", "missing"}
    /\ reply = <<>>

NextMain ==
    \/ InvokeGetSystemInfo
    \/ InvokeGetProcesses
    \/ InvokeKillProcess

SpecMain == MainStart /\ [][NextMain]_vars

(***************************************************************************)
(* SpecKill: selecting and killing processes while the sampling goes on.   *)
(***************************************************************************)
KillStart ==
    /\ AppFirstSample
    /\ processes \in {snap.procs : snap \in Snapshots}
    /\ ListInit
    /\ KillInit
    /\ native \in {"loaded", "missing"}
    /\ reply = <<>>

NextKill ==
    \/ \E pid \in 1..(MaxPid + 1) : selectRow(pid)
    \/ clickKill
    \/ cancelKill
    \/ confirmKill
    \/ KillReturns
    \/ Tick
    \/ ResolveOk
    \/ Advance

SpecKill == KillStart /\ [][NextKill]_vars

(***************************************************************************)
(* Properties.                                                             *)
(***************************************************************************)
Last(s) == s[Len(s)]

\* A fetch whose effect has been cleaned up (clearInterval has run for the
\* timer of its effect).
Stopped(f) == f.gen # effectGen \/ phase # "mounted"

\* max(0, (current - previous) / deltaSeconds), deltaMs > 0
ExpectedRate(current, previous, deltaMs) ==
    MathMax0(Frac((current - previous) * MsPerSecond, deltaMs))

\* C1: at no time are two sampling cycles (two outstanding snapshot
\* fetches of the running scheduler) in flight: a tick that finds one
\* outstanding issues no second one.
C1_AtMostOneInFlight ==
    Cardinality({f \in inflight : f.gen = effectGen}) <= 1

\* C2: a fetch that resolves after its scheduler was stopped appends no
\* point to history and updates none of systemInfo, processes and the
\* previous-rate state.
C2_NoMutationAfterStop ==
    [][\A f \in inflight :
          (f \notin inflight' /\ Stopped(f)) =>
              UNCHANGED <<history, systemInfo, processes, prevNetworkRx,
                          prevNetworkTx, prevTimestamp>>]_vars

\* C3: in every cycle after the first, the rx and tx rates of the new point
\* are max(0, (current - previous) / deltaSeconds) over the counter values
\* and the capture time the immediately preceding completed cycle stored.
C3_RateFromPrecedingCycle ==
    [][(cycles >= 1 /\ cycles' = cycles + 1 /\ DateNow > prevTimestamp) =>
          /\ Last(history').networkRx =
                ExpectedRate(prevNetworkRx', prevNetworkRx, DateNow - prevTimestamp)
          /\ Last(history').networkTx =
                ExpectedRate(prevNetworkTx', prevNetworkTx, DateNow - prevTimestamp)]_vars

\* C4: the point of the first completed cycle has rx and tx rate 0 whatever
\* the counters of the first snapshot are.
C4_FirstCycleRateZero ==
    [][(cycles = 0 /\ cycles' = 1) =>
          /\ Last(history').networkRx = Zero
          /\ Last(history').networkTx = Zero]_vars

\* C5 as stated: after k completed cycles the buffer has min(k, N) points
\* and its last element is the point of the most recent cycle.
C5_LengthMinAppends ==
    /\ Len(history) = Min(cycles, HistoryCapacity)
    /\ cycles > 0 => Last(history) = lastAppended[1]

\* C5 as amended: after k completed cycles the buffer has N points, the
\* N - min(k, N) newest placeholders followed by the points of the
\* min(k, N) most recent cycles, and for k >= 1 its last element is the
\* point of the most recent cycle.
C5_LengthAlwaysCapacity ==
    /\ Len(history) = HistoryCapacity
    /\ \A i \in 1..(HistoryCapacity - Min(cycles, HistoryCapacity)) :
          history[i] = initialHistory[i + Min(cycles, HistoryCapacity)]
    /\ cycles > 0 => Last(history) = lastAppended[1]

C5_Witness ==
    /\ cycles = 2
    /\ Last(history) = lastAppended[1]
    /\ history[HistoryCapacity - 2] = initialHistory[HistoryCapacity]

\* C6: the buffer never holds more than N points; a step that changes it is
\* the append of a completed cycle, which drops exactly the oldest points
\* and leaves the surviving points as they were, in the same order.
C6_BoundedDropOldest ==
    [][/\ Len(history) <= HistoryCapacity
       /\ Len(history') <= HistoryCapacity
       /\ history' # history =>
             /\ cycles' = cycles + 1
             /\ Len(history') = Min(Len(history) + 1, HistoryCapacity)
             /\ Last(history') = lastAppended'[1]
             /\ \A i \in 1..(Len(history') - 1) :
                   history'[i] = history[i + Len(history) + 1 - Len(history')]]_vars

C6_Witness ==
    /\ cycles > HistoryCapacity
    /\ Len(history) = HistoryCapacity
    /\ \A i \in 1..HistoryCapacity : history[i] \notin
          {initialHistory[j] : j \in 1..HistoryCapacity}

\* C7: a cycle that ends in the catch block leaves history and the
\* previous-rate state as they were before it.
C7_FailureLeavesState ==
    [][failed' = failed + 1 =>
          UNCHANGED <<history, prevNetworkRx, prevNetworkTx, prevTimestamp>>]_vars

C7_Witness ==
    /\ failed > 0
    /\ cycles > 0
    /\ issuedAtFail > lastDone
    /\ Last(history) = lastAppended[1]

\* C8: a failed cycle leaves the timer armed; after it a due tick still
\* issues a fetch, and a fetch that then succeeds appends its point.
C8_FailureDoesNotHalt ==
    [][/\ failed' = failed + 1 => (interval' = interval /\ interval' # <<>>)
       /\ (failed > 0 /\ phase = "mounted") =>
             /\ interval # <<>>
             /\ (now >= nextDue /\ issued < MaxFetches) => ENABLED Tick
       /\ (failed > 0 /\ cycles' = cycles + 1) =>
             /\ Last(history') = lastAppended'[1]
             /\ Last(history').timestamp = DateNow]_vars

C8_Witness ==
    /\ failed > 0
    /\ error # Null
    /\ interval # <<>>
    /\ lastDone > issuedAtFail
    /\ Last(history) = lastAppended[1]

\* Every node the forest holds, as renderProcessTree walks it from the
\* roots with every pid expanded.
forestNodes(sorted, tree) ==
    renderEach(sorted, tree.roots, 1, 0, tree.childrenMap,
               {sorted[i].pid : i \in 1..Len(sorted)})

\* C9: every process of the list given to buildProcessTree is in the forest
\* reachable from the roots exactly once, and the forest has as many nodes
\* as the list has processes.
C9_TreeComplete ==
    forest # <<>> =>
        LET sorted == sortedProcesses(processes, searchQuery, sortBy, sortDesc)
            nodes  == forestNodes(sorted, forest[1])
        IN  /\ ~nodes.overflow
            /\ Len(nodes.rows) = Len(sorted)
            /\ \A i \in 1..Len(sorted) :
                  Cardinality({r \in 1..Len(nodes.rows) :
                                  nodes.rows[r].index = i}) = 1

Increasing(s) == \A a, b \in 1..Len(s) : a < b => s[a] < s[b]
Members(s) == {s[k] : k \in 1..Len(s)}

\* C10: a process is a root iff its ppid is 0 or no process of the list has
\* that pid; otherwise it is in the children list of the pid that is its
\* ppid; the roots and every children list are in the order of the list.
C10_RootsAndChildren ==
    forest # <<>> =>
        LET sorted == sortedProcesses(processes, searchQuery, sortBy, sortDesc)
            tree   == forest[1]
            orphan(i) == \A j \in 1..Len(sorted) : sorted[j].pid # sorted[i].ppid
        IN  /\ \A i \in 1..Len(sorted) :
                  /\ i \in Members(tree.roots) <=>
                        (sorted[i].ppid = 0 \/ orphan(i))
                  /\ i \notin Members(tree.roots) =>
                        i \in Members(childrenOf(tree.childrenMap, sorted[i].ppid))
            /\ \A pid \in DOMAIN tree.childrenMap :
                  /\ Increasing(tree.childrenMap[pid])
                  /\ \A i \in Members(tree.childrenMap[pid]) :
                        /\ sorted[i].ppid = pid
                        /\ i \notin Members(tree.roots)
            /\ Increasing(tree.roots)

C10_Witness ==
    /\ forest # <<>>
    /\ LET sorted == sortedProcesses(processes, searchQuery, sortBy, sortDesc)
           tree   == forest[1]
       IN  /\ \E i \in Members(tree.roots) : sorted[i].ppid = 0
           /\ \E i \in Members(tree.roots) : sorted[i].ppid # 0
           /\ \E pid \in DOMAIN tree.childrenMap : Len(tree.childrenMap[pid]) >= 1
           /\ sortBy = "pid"

(***************************************************************************)
(* Rates and percentages of the appended point.                            *)
(***************************************************************************)
nonNegative(r) == r # NaN /\ r.num >= 0

\* C11: every network receive and transmit rate stored in a history point,
\* and the pair published in systemInfo.network, is >= 0 in every reachable
\* state, also when a cumulative counter is lower than it was at the
\* preceding capture.
C11_RatesNonNegative ==
    /\ \A i \in 1..Len(history) :
          nonNegative(history[i].networkRx) /\ nonNegative(history[i].networkTx)
    /\ systemInfo # <<>> =>
          nonNegative(systemInfo[1].rx) /\ nonNegative(systemInfo[1].tx)

\* A cycle completed whose receive counter was below the previous one: its
\* raw rate was negative and the stored and published rates are 0.
C11_Witness ==
    /\ lastLocals # <<>>
    /\ lastLocals[1].networkRx < lastLocals[1].prevNetworkRx
    /\ lastLocals[1].networkRxRate.num < 0
    /\ Last(history).networkRx = Zero
    /\ systemInfo[1].rx = Zero

\* C12: whenever the elapsed time between the two captures a cycle compares
\* is <= 0 (equal timestamps, or a clock that went backwards), the receive
\* and transmit rates of the cycle are 0 whatever the two counter values
\* are; no quotient (NaN, Infinity, a negative rate) is produced.
C12_NoElapsedTimeRateZero ==
    (lastLocals # <<>> /\ lastLocals[1].deltaMs <= 0) =>
        /\ lastLocals[1].networkRxRate = Zero
        /\ lastLocals[1].networkTxRate = Zero
        /\ lastAppended[1].networkRx = Zero
        /\ lastAppended[1].networkTx = Zero

\* A cycle completed on a clock that went backwards, with counters that
\* differ from the non-zero previous ones in both directions.
C12_Witness ==
    /\ lastLocals # <<>>
    /\ lastLocals[1].deltaMs < 0
    /\ lastLocals[1].prevNetworkRx > 0
    /\ lastLocals[1].networkRx > lastLocals[1].prevNetworkRx
    /\ lastLocals[1].networkTx < lastLocals[1].prevNetworkTx
    /\ lastAppended[1].networkRx = Zero

\* The memory object of the snapshot the last completed cycle read.
lastMemory == chain(lastLocals[1].info, "memory")

\* C13: a snapshot whose memory.total is 0 gives the appended point a
\* memory percentage of 0, one whose totalSwap is 0 a swap percentage of 0;
\* neither is NaN or Infinity.
C13_ZeroTotalZeroPercent ==
    (lastLocals # <<>> /\ lastMemory # <<>>) =>
        /\ lastMemory[1].total = <<0>> => lastAppended[1].memory = Zero
        /\ lastMemory[1].totalSwap = <<0>> => lastAppended[1].swap = Zero

\* The numeric fields of a history point.
numericFields(point) ==
    {point.cpu, point.memory, point.swap, point.diskRead, point.diskWrite,
     point.networkRx, point.networkTx}

\* C14: when a snapshot lacks a member or a number (cpu, memory or one of its
\* used / total / usedSwap / totalSwap, disk, network), every numeric field
\* of the appended point is a defined finite number: nothing that is NaN
\* enters history.  (Snapshots with memory.total = 0 are left to C13.)
C14_MissingFieldsAreZero ==
    (lastLocals # <<>> /\ chain(lastMemory, "total") # <<0>>) =>
        \A x \in numericFields(lastAppended[1]) : isFinite(x)

(***************************************************************************)
(* Killing a process.                                                      *)
(***************************************************************************)
pids(procs) == {procs[i].pid : i \in 1..Len(procs)}

\* A step in which a kill request returns.
KillReturned == Cardinality(killCalls') < Cardinality(killCalls)

\* C15: when the external kill operation returns success = true the kill
\* handler leaves the pid out of the process list; when it returns
\* success = false the list is unchanged and no further kill request is
\* made; in both cases the {success, message} it returns is the one the
\* external operation replied.
C15_KillRemovesIffSuccess ==
    [][KillReturned =>
          LET k == lastKill'[1]
              replied == reply'[1].result.value[1]
          IN  /\ replied.success => k.pid \notin pids(processes')
              /\ ~replied.success =>
                    /\ processes' = processes
                    /\ killLog' = killLog
                    /\ killCalls' \subseteq killCalls
              /\ k.returned = replied]_vars

\* A kill request for a listed pid returned success and the pid is gone.
C15_Witness ==
    /\ lastKill # <<>>
    /\ lastKill[1].returned.success
    /\ lastKill[1].pid \in pids(lastKill[1].before)
    /\ lastKill[1].pid \notin pids(processes)

\* C18: electronAPI.killProcess is invoked for a pid only by the Confirm
\* button of a dialog that is open for that pid; the dialog is opened only
\* by the Kill button for the selected pid; Cancel closes the dialog and
\* invokes nothing.
C18_KillOnlyAfterConfirm ==
    [][/\ killLog' # killLog =>
             /\ confirmKill
             /\ showConfirmDialog
             /\ killLog' = Append(killLog, processToKill[1].pid)
       /\ killCalls' \ killCalls # {} => killLog' # killLog
       /\ (processToKill' # processToKill /\ processToKill' # <<>>) =>
             /\ clickKill
             /\ selectedPid = <<processToKill'[1].pid>>
       /\ cancelKill => (~showConfirmDialog' /\ killLog' = killLog
                         /\ killCalls' = killCalls)]_vars

\* Confirm was activated once: its request, for the pid the dialog is open
\* for, is outstanding.
C18_Witness ==
    /\ Len(killLog) = 1
    /\ killCalls # {}
    /\ \E call \in killCalls : call.pid = killLog[1]
    /\ showConfirmDialog

(***************************************************************************)
(* The IPC handlers.                                                       *)
(***************************************************************************)
\* C19: each of the handlers get-system-info, get-processes and kill-process
\* returns a value and propagates no exception: with the native module
\* missing, the all-zero system info, the empty list and
\* {success: false, message: 'Native module not loaded'}; when the native
\* call throws, null, the empty list and
\* {success: false, message: 'Failed to kill process'}.
C19_HandlersAlwaysReturn ==
    reply # <<>> =>
        LET r == reply[1]
            value == r.result.value[1]
            threw == \E i \in 1..Len(r.calls) : r.calls[i].threw
        IN  /\ ~r.result.threw
            /\ r.result.value # <<>>
            /\ r.channel = "get-system-info" =>
                  /\ r.nat = "missing" => value = NativeMissingInfo
                  /\ (r.nat = "loaded" /\ threw) => value = <<>>
            /\ r.channel = "get-processes" =>
                  /\ r.nat = "missing" => value = <<>>
                  /\ (r.nat = "loaded" /\ threw) => value = <<>>
            /\ r.channel = "kill-process" =>
                  /\ r.nat = "missing" => value = NativeNotLoaded
                  /\ (r.nat = "loaded" /\ threw) => value = FailedToKill

\* kill-process was invoked with the native module loaded and throwing.
C19_Witness ==
    /\ reply # <<>>
    /\ reply[1].channel = "kill-process"
    /\ reply[1].nat = "loaded"
    /\ reply[1].calls[1].threw
    /\ reply[1].result = Returns(FailedToKill)

(***************************************************************************)
(* The table: filter and sort.                                             *)
(***************************************************************************)
\* The rows of the table, top to bottom.
displayed ==
    LET sorted == sortedProcesses(processes, searchQuery, sortBy, sortDesc)
    IN  [r \in 1..Len(tbody.rows) |-> sorted[tbody.rows[r].index]]

\* The same letter in either case.
sameLetter(c, d) == c = d \/ {c, d} \in {{"s", "S"}, {"h", "H"}}

\* text occurs in name at some position, letter case apart.
containsIgnoringCase(name, text) ==
    \E k \in 0..(Len(name) - Len(text)) :
        \A i \in 1..Len(text) : sameLetter(name[k + i], text[i])

\* The k-th smallest member of a set of numbers.
nth(S, k) == CHOOSE i \in S : Cardinality({j \in S : j <= i}) = k

occurrences(seq, x) == Cardinality({i \in 1..Len(seq) : seq[i] = x})

\* C16: the filter keeps exactly the processes whose name contains the
\* filter text as a substring, letter case apart, in their input order;
\* with an empty filter text the list is unchanged before sorting.  The
\* table shows the kept processes and no other.
C16_FilterKeepsMatches ==
    LET kept == filterProcesses(processes, searchQuery)
        keep == {i \in 1..Len(processes) :
                    containsIgnoringCase(processes[i].name, searchQuery)}
    IN  /\ Len(kept) = Cardinality(keep)
        /\ \A k \in 1..Len(kept) : kept[k] = processes[nth(keep, k)]
        /\ searchQuery = <<>> => kept = processes
        /\ Len(displayed) = Len(kept)
        /\ \A k \in 1..Len(kept) :
              occurrences(displayed, kept[k]) = occurrences(kept, kept[k])

\* A filter text in upper case keeps the first and the third of three
\* processes, the third by a name in lower case, and drops the second.
C16_Witness ==
    /\ searchQuery = <<"S", "H">>
    /\ Len(processes) = 3
    /\ processes[1].name = <<"S", "S", "H">>
    /\ processes[2].name = <<"h">>
    /\ processes[3].name = <<"s", "h">>
    /\ filterProcesses(processes, searchQuery) = <<processes[1], processes[3]>>
    /\ Len(tbody.rows) = 2

\* The processes the rows show, given the list they were rendered from.
shown(sorted, rows) == [r \in 1..Len(rows) |-> sorted[rows[r].index]]

\* The processes of a sequence whose sort key has the value v, in order.
withKey(seq, key, v) == SelectSeq(seq, LAMBDA p : p[key] = v)

childNodes(sorted, tree, i) ==
    Members(childrenOf(tree.childrenMap, sorted[i].pid))

\* The nodes reached from the set S by at most n more children links.
RECURSIVE reach(_, _, _, _)
reach(sorted, tree, S, n) ==
    IF n = 0 THEN S
    ELSE reach(sorted, tree,
               S \cup UNION {childNodes(sorted, tree, i) : i \in S}, n - 1)

\* The descendants of node i.
descendants(sorted, tree, i) ==
    reach(sorted, tree, childNodes(sorted, tree, i), Len(sorted))

\* C20: no process is its own descendant in the built forest: following
\* children links from a node never returns to it, whatever the list is
\* (a ppid equal to the own pid, ppids that refer to each other).
C20_NoSelfDescendant ==
    forest # <<>> =>
        LET sorted == sortedProcesses(processes, searchQuery, sortBy, sortDesc)
        IN  \A i \in 1..Len(sorted) : i \notin descendants(sorted, forest[1], i)


(***************************************************************************)
(* The tree view: the order of the rows.                                   *)
(***************************************************************************)
\* The list the table is rendered from.
sortedNow == sortedProcesses(processes, searchQuery, sortBy, sortDesc)

\* The nearest row above row k with a smaller indentation level, 0 if none.
rowAbove(rows, k) ==
    LET above == {j \in 1..(k - 1) : rows[j].level < rows[k].level}
    IN  IF above = {} THEN 0 ELSE CHOOSE j \in above : \A h \in above : h <= j

\* What each row shows: the process, its level and the process of the row
\* it hangs under (none for a root row).
rowFacts(sorted, rows) ==
    [k \in 1..Len(rows) |->
        [process |-> sorted[rows[k].index],
         level   |-> rows[k].level,
         parent  |-> IF rowAbove(rows, k) = 0 THEN <<>>
                     ELSE <<sorted[rows[rowAbove(rows, k)].index]>>]]

sameBag(a, b) ==
    /\ Len(a) = Len(b)
    /\ \A k \in 1..Len(a) : occurrences(a, a[k]) = occurrences(b, a[k])

\* Every row of a rendered tree is a root at level 0 or hangs, one level
\* deeper, under the nearest row above it with a smaller level, which is
\* the row of an expanded process whose pid is the row's ppid.
treeShape ==
    (showTreeView /\ ~tbody.overflow) =>
        \A k \in 1..Len(tbody.rows) :
            LET row == tbody.rows[k]
                j   == rowAbove(tbody.rows, k)
            IN  IF row.level = 0
                THEN row.index \in Members(forest[1].roots)
                ELSE /\ j > 0
                     /\ tbody.rows[j].level = row.level - 1
                     /\ sortedNow[tbody.rows[j].index].pid \in expandedPids
                     /\ sortedNow[row.index].ppid = sortedNow[tbody.rows[j].index].pid
                     /\ row.index \in childNodes(sortedNow, forest[1], tbody.rows[j].index)

\* A change of the sort key or direction in the tree view shows the same
\* rows, each at the same level under the same parent.
sortKeepsParents ==
    (/\ showTreeView /\ showTreeView'
     /\ sortBy' # sortBy \/ sortDesc' # sortDesc
     /\ ~tbody.overflow /\ ~tbody'.overflow) =>
        sameBag(rowFacts(sortedNow, tbody.rows),
                rowFacts(sortedProcesses(processes', searchQuery', sortBy',
                                         sortDesc'), tbody'.rows))

alphaRank(c) == IF c \in {"h", "H"} THEN 1 ELSE 2

\* a comes no later than b in the dictionary, letter case apart: a is a
\* beginning of b, or has the earlier letter where they first differ.
lexAtMost(a, b) ==
    \E k \in 1..(Len(a) + 1) :
        /\ \A i \in 1..(k - 1) : i <= Len(b) /\ alphaRank(a[i]) = alphaRank(b[i])
        /\ \/ k > Len(a)
           \/ k <= Len(b) /\ alphaRank(a[k]) < alphaRank(b[k])

\* lo may be shown before hi when the list is ascending by key.
keyAtMost(lo, hi, key) ==
    IF key \in StringKeys THEN lexAtMost(lo[key], hi[key])
    ELSE lo[key] <= hi[key]

clickSorts(column) ==
    handleSort(column) =>
        IF column = sortBy
        THEN sortBy' = sortBy /\ sortDesc' = ~sortDesc
        ELSE sortBy' = column /\ sortDesc' = TRUE

\* C23: the table starts sorted by cpu, descending; a click on the header
\* of the active key toggles the direction and keeps the key, a click on
\* another header makes that key the active one, descending; there is
\* always one active key.
C23_HeaderClicks ==
    /\ (sortBy = "cpu" /\ sortDesc = TRUE)
    /\ [](sortBy \in SortKeys \cup StringKeys)
    /\ [][\A column \in SortKeys \cup StringKeys : clickSorts(column)]_vars

\* A click on another header while the list was ascending: the new key is
\* active and the list is descending again.
C23_Witness ==
    /\ sortedBefore # <<>>
    /\ sortedBefore[1].key # sortBy
    /\ ~sortedBefore[1].desc
    /\ sortDesc
    /\ sortBy = "name"


(***************************************************************************)
(* The history: order and placeholders.                                    *)
(***************************************************************************)
\* C24: the timestamps of the history never decrease from the first point
\* to the last: the order of insertion is the order in time, across the
\* boundary between placeholders and samples and whatever the order in
\* which the responses of overlapping fetches arrive.
C24_TimestampsNonDecreasing ==
    \A i \in 1..(Len(history) - 1) :
        history[i].timestamp <= history[i + 1].timestamp


metrics == {"cpu", "memory", "swap", "diskRead", "diskWrite", "networkRx", "networkTx"}

arms == interval' # interval /\ interval' # <<>>

\* The step that arms a timer has issued one request of the same effect
\* run, nothing has been issued by the timer yet, whose first tick is a
\* whole interval away, and no timer armed before is left.
armsAfterRequest ==
    arms =>
        /\ issued' = issued + 1
        /\ \E f \in inflight' \ inflight :
              /\ inflight' = inflight \cup {f}
              /\ f.id = issued'
              /\ \A t \in Members(interval') : t.gen = f.gen /\ t.env = f.env
        /\ nextDue' = now' + IntervalMs
        /\ Members(interval') \cap Members(interval) = {}

\* C26: the start of the scheduler issues one request at once, before any
\* interval has passed, and arms the 2000 ms timer; a restart on a change
\* of showThreads cancels the old timer and does the same: at most one
\* timer is armed at any time.
C26_RequestThenOneTimer ==
    /\ [](Len(interval) <= 1)
    /\ [][armsAfterRequest]_vars

\* After a restart: the timer of the second effect run is armed, its
\* immediate request is out, the first tick is an interval away.
C26_Witness ==
    /\ showThreads
    /\ Len(interval) = 1
    /\ interval[1].gen = effectGen
    /\ \E f \in inflight : f.gen = effectGen /\ f.id = issued
    /\ \E f \in inflight : f.gen < effectGen
    /\ nextDue = now + IntervalMs
    /\ now > StartTime


(***************************************************************************)
(* The tree view: the flattening ends.                                     *)
(***************************************************************************)
\* The render of the tree ends.
flattenEnds == showTreeView => ~tbody.overflow

\* No process of the list is emitted twice.
emittedOnce ==
    showTreeView =>
        \A a, b \in 1..Len(tbody.rows) :
            tbody.rows[a].index = tbody.rows[b].index => a = b

\* C27: flattening the forest for display ends and emits each process at
\* most once, for every list and every set of expanded pids, lists in
\* which two entries share a pid or an entry is its own parent included.
C27_FlattenEndsEachOnce == flattenEnds /\ emittedOnce


(***************************************************************************)
(* Kill requests and sampling.                                             *)
(***************************************************************************)
\* The one kill request made so far returns with success in this step.
killSucceeds ==
    /\ Len(killLog) = 1
    /\ lastKill' # lastKill
    /\ lastKill'[1].returned.success

\* C28: a sample that lands while a kill request is pending is not lost:
\* when the kill returns with success, the list becomes the most recently
\* sampled list without the killed pid, never an older list captured when
\* the kill was started (stated for a kill request that is the only one).
C28_KillKeepsLatestSample ==
    [][killSucceeds => processes' = filterOut(processes, lastKill'[1].pid)]_vars


(***************************************************************************)
(* The error flag.                                                         *)
(***************************************************************************)
\* C29: once a cycle has failed and the error is set, nothing clears it:
\* error is non-null in every later state, also after later cycles have
\* succeeded and appended to the history, and the error view is what the
\* application shows (ProcessList is not rendered).
C29_ErrorIsNeverCleared ==
    /\ [](error # Null => ~ProcessListShown)
    /\ [][error # Null => error' # Null]_vars

\* A cycle issued after the failure has succeeded and its point is the
\* last of the history; the error is still set.
C29_Witness ==
    /\ error = FetchErrorMessage
    /\ failed = 1
    /\ cycles > 0
    /\ lastDone > issuedAtFail
    /\ lastAppended # <<>>
    /\ Last(history) = lastAppended[1]
    /\ ~loading


(***************************************************************************)
(* The confirmation dialog: one request.                                   *)
(***************************************************************************)
\* The kill requests made from the dialog since it was opened.
requestsOfDialog == Len(killLog) - openedAt

\* A kill request returns while ProcessList is shown: the dialog closes,
\* processToKill is null, selectedPid is cleared on success only.
closesOnReturn ==
    (lastKill' # lastKill /\ ProcessListShown) =>
        /\ showConfirmDialog' = FALSE
        /\ processToKill' = <<>>
        /\ selectedPid' = IF lastKill'[1].returned.success THEN <<>>
                          ELSE selectedPid

\* C30: each opening of the confirmation dialog leads to at most one
\* killProcess request (while the request is pending, neither another
\* activation of Kill Process nor Cancel issues a second one), and when
\* the request returns the dialog is closed and processToKill is null,
\* selectedPid cleared on success only.
C30_OneRequestPerDialog ==
    /\ [](DialogShown => requestsOfDialog <= 1)
    /\ [][closesOnReturn]_vars

=============================================================================
